---- MODULE Spec2Model ----
(***************************************************************************)
(* Model of crcwc_to_sb.py: the Core Research Center well catalog to       *)
(* ScienceBase item transform.  Python values are tagged records, Python   *)
(* str is a TLA+ string, a Python dict is the sequence of its (key, value) *)
(* pairs in insertion order, and a call either returns a value or raises.  *)
(***************************************************************************)
EXTENDS Integers, Sequences, FiniteSets, TLC

VARIABLES
    pc,               \* position of the running call
    sample_type,      \* argument: "core" or "cutting"
    crc_record,       \* argument: the GeoJSON feature
    args,             \* the caller-supplied additional_props / macrostrat_info
    additional_props, \* local of sb_item_from_crcwc
    macrostrat_info,  \* local of sb_item_from_crcwc; argument of crc_tags
    page,             \* what the report site serves for the record
    api_response,     \* what the Macrostrat API answers
    extracted_data,   \* result of extract_crc_data; argument of crc_weblinks
    enricher_calls,   \* number of calls of macrostrat_context
    result            \* what the running call returned or raised

vars == <<pc, sample_type, crc_record, args, additional_props, macrostrat_info,
          page, api_response, extracted_data, enricher_calls, result>>

-----------------------------------------------------------------------------
(* Python values *)

None == [t |-> "NoneType"]
Str(s) == [t |-> "str", s |-> s]
PyInt(n) == [t |-> "int", n |-> n]
\* a float whose repr is <w>.<f>
Float(w, f) == [t |-> "float", w |-> w, f |-> f]
List(elts) == [t |-> "list", elts |-> elts]
Dict(items) == [t |-> "dict", items |-> items]

Has(d, k) == \E i \in 1..Len(d.items) : d.items[i][1] = k
Get(d, k) == d.items[CHOOSE i \in 1..Len(d.items) : d.items[i][1] = k][2]
Keys(d) == {d.items[i][1] : i \in 1..Len(d.items)}
\* d[k] = v: replaces the value of an existing key in place, else appends
Put(d, k, v) ==
    IF Has(d, k)
    THEN Dict([i \in 1..Len(d.items) |->
                 IF d.items[i][1] = k THEN <<k, v>> ELSE d.items[i]])
    ELSE Dict(Append(d.items, <<k, v>>))

Return(v) == [ok |-> TRUE, value |-> v]
Raise(e) == [ok |-> FALSE, exc |-> e]

isinstance_float(v) == v.t = "float"

-----------------------------------------------------------------------------
(* json.dumps with its default separators *)

RECURSIVE py_encode_basestring(_)
py_encode_basestring(s) ==
    IF s = "" THEN ""
    ELSE LET c == Head(s) IN
         (IF c = "\"" THEN "\\\"" ELSE IF c = "\\" THEN "\\\\" ELSE c)
             \o py_encode_basestring(Tail(s))

RECURSIVE dumps(_)
RECURSIVE dumps_list(_)
RECURSIVE dumps_items(_)
dumps(v) ==
    CASE v.t = "NoneType" -> "null"
      [] v.t = "str"      -> "\"" \o py_encode_basestring(v.s) \o "\""
      [] v.t = "int"      -> ToString(v.n)
      [] v.t = "float"    -> ToString(v.w) \o "." \o v.f
      [] v.t = "list"     -> "[" \o dumps_list(v.elts) \o "]"
      [] v.t = "dict"     -> "{" \o dumps_items(v.items) \o "}"
dumps_list(elts) ==
    IF elts = <<>> THEN ""
    ELSE dumps(Head(elts))
         \o (IF Len(elts) > 1 THEN ", " ELSE "") \o dumps_list(Tail(elts))
dumps_items(items) ==
    IF items = <<>> THEN ""
    ELSE "\"" \o py_encode_basestring(Head(items)[1]) \o "\": " \o dumps(Head(items)[2])
         \o (IF Len(items) > 1 THEN ", " ELSE "") \o dumps_items(Tail(items))

\* str(v) as an f-string renders it
format(v) ==
    CASE v.t = "NoneType" -> "None"
      [] v.t = "str"      -> v.s
      [] v.t = "int"      -> ToString(v.n)
      [] v.t = "float"    -> ToString(v.w) \o "." \o v.f

-----------------------------------------------------------------------------
(* The static lookup table and the small builders *)

property_mapping ==
    [core    |-> [parent_id |-> "4f4e49dae4b07f02db5e0486",
                  source_identifier |-> "libno",
                  site_operator |-> "oper",
                  api_identifier |-> "apiwel"],
     cutting |-> [parent_id |-> "4f4e49d8e4b07f02db5df2d2",
                  source_identifier |-> "chlibno",
                  site_operator |-> "operator",
                  api_identifier |-> "apinum"]]

capitalize(s) == IF s = "core" THEN "Core" ELSE IF s = "cutting" THEN "Cutting" ELSE s

crc_title(st, source_identifier) ==
    "Core Research Center " \o capitalize(st) \o " " \o format(source_identifier)

crc_contacts(site_operator) ==
    << [name |-> Str("Core Research Center"), oldPartyId |-> 17172,
        type |-> "Data Owner", contactType |-> "organization"],
       [name |-> Str("Jeannine Honey"), oldPartyId |-> 4685,
        type |-> "Data Steward", contactType |-> "person"],
       [name |-> site_operator, type |-> "Site Operator",
        contactType |-> "organization"] >>

crc_provenance ==
    [annotation |-> "Harvested from ArcGIS Server and Core Research Center Web Site"]

-----------------------------------------------------------------------------
(* crc_identifiers *)

\* mutant: the None tests are left out
crc_identifiers_unconditional(identifier, st, props) ==
    IF ~Has(props, property_mapping[st].source_identifier)
       \/ ~Has(props, property_mapping[st].api_identifier)
    THEN Raise("KeyError")
    ELSE Return(<< [type |-> "uniqueKey", scheme |-> "CRC Well Catalog Database ID",
                    key |-> identifier],
                   [type |-> "uniqueKey", scheme |-> "CRC Library Number",
                    key |-> Get(props, property_mapping[st].source_identifier)],
                   [type |-> "uniqueKey", scheme |-> "American Petroleum Institute Number",
                    key |-> Get(props, property_mapping[st].api_identifier)] >>)

crc_identifiers(identifier, st, props) ==
    LET src == property_mapping[st].source_identifier
        api == property_mapping[st].api_identifier
        own == << [type |-> "uniqueKey", scheme |-> "CRC Well Catalog Database ID",
                   key |-> identifier] >>
    IN  IF ~Has(props, src) THEN Raise("KeyError")
        ELSE LET withLib ==
                     IF Get(props, src) # None
                     THEN Append(own, [type |-> "uniqueKey", scheme |-> "CRC Library Number",
                                       key |-> Get(props, src)])
                     ELSE own
             IN  IF ~Has(props, api) THEN Raise("KeyError")
                 ELSE IF Get(props, api) # None
                 THEN Return(Append(withLib,
                                    [type |-> "uniqueKey",
                                     scheme |-> "American Petroleum Institute Number",
                                     key |-> Get(props, api)]))
                 ELSE Return(withLib)

-----------------------------------------------------------------------------
(* crc_body *)

\* mutant: the geologic context section is written before the scraped one
crc_body_context_first(st, props, addl, info) ==
    LET src == property_mapping[st].source_identifier
        opr == property_mapping[st].site_operator
    IN  IF ~Has(props, src) \/ ~Has(props, opr) THEN Raise("KeyError")
        ELSE Return(
            "<p>Core Research Center, " \o st \o " " \o format(Get(props, src))
                \o ", from well operated by " \o format(Get(props, opr)) \o "</p>"
            \o "<h4>Properties from ArcGIS MapServer</h4>"
            \o "<div>" \o dumps(props) \o "</div>"
            \o (IF info # None
                THEN "<h4>Geologic Map Information from Macrostrat</h4>"
                     \o "<div>" \o dumps(info) \o "</div>"
                ELSE "")
            \o (IF addl # None
                THEN "<h4>Properties from Web Page</h4>"
                     \o "<div>" \o dumps(addl) \o "</div>"
                ELSE ""))

crc_body(st, props, addl, info) ==
    LET src == property_mapping[st].source_identifier
        opr == property_mapping[st].site_operator
    IN  IF ~Has(props, src) \/ ~Has(props, opr) THEN Raise("KeyError")
        ELSE Return(
            "<p>Core Research Center, " \o st \o " " \o format(Get(props, src))
                \o ", from well operated by " \o format(Get(props, opr)) \o "</p>"
            \o "<h4>Properties from ArcGIS MapServer</h4>"
            \o "<div>" \o dumps(props) \o "</div>"
            \o (IF addl # None
                THEN "<h4>Properties from Web Page</h4>"
                     \o "<div>" \o dumps(addl) \o "</div>"
                ELSE "")
            \o (IF info # None
                THEN "<h4>Geologic Map Information from Macrostrat</h4>"
                     \o "<div>" \o dumps(info) \o "</div>"
                ELSE ""))

-----------------------------------------------------------------------------
(* crc_weblinks *)

\* s.split('/')[-1]
RECURSIVE last_segment(_, _)
last_segment(s, acc) ==
    IF s = "" THEN acc
    ELSE IF Head(s) = "/" THEN last_segment(Tail(s), "")
    ELSE last_segment(Tail(s), acc \o Head(s))

report_link(st, identifier) ==
    [type |-> "webLink", typeLabel |-> "Web Link",
     uri |-> "https://my.usgs.gov/crcwc/" \o st \o "/report/" \o format(identifier),
     rel |-> "related", title |-> "Core Research Center Well Catalog Web Page",
     hidden |-> FALSE, itemWebLinkTypeId |-> "4f4e475de4b07f02db47debf"]

document_link(doc_link) ==
    [type |-> "download", typeLabel |-> "Download", uri |-> doc_link,
     rel |-> "related",
     title |-> "Core Research Center Analysis File " \o last_segment(doc_link, ""),
     hidden |-> FALSE, itemWebLinkTypeId |-> "4f4e475de4b07f02db47dec0"]

photo_link(doc_link) ==
    [type |-> "download", typeLabel |-> "Photo", uri |-> doc_link,
     rel |-> "related",
     title |-> "Core Research Center Photo " \o last_segment(doc_link, ""),
     hidden |-> FALSE, itemWebLinkTypeId |-> "4f4e475de4b07f02db47dec0"]

\* the links of one scraped list, or nothing when the key is absent
links_of(data, key) ==
    IF data # None /\ Has(data, key) THEN Get(data, key).elts ELSE <<>>

\* mutant: the photo entries are appended before the document entries
crc_weblinks_photos_first(st, identifier, data) ==
    LET docs   == links_of(data, "documents")
        photos == links_of(data, "photos")
    IN  IF \E i \in 1..Len(docs) : docs[i] = None THEN Raise("AttributeError")
        ELSE IF \E i \in 1..Len(photos) : photos[i] = None THEN Raise("AttributeError")
        ELSE Return(<<report_link(st, identifier)>>
                    \o [i \in 1..Len(photos) |-> photo_link(photos[i].s)]
                    \o [i \in 1..Len(docs) |-> document_link(docs[i].s)])

crc_weblinks(st, identifier, data) ==
    LET docs   == links_of(data, "documents")
        photos == links_of(data, "photos")
    IN  \* None has no split(): an anchor without href raises here
        IF \E i \in 1..Len(docs) : docs[i] = None THEN Raise("AttributeError")
        ELSE IF \E i \in 1..Len(photos) : photos[i] = None THEN Raise("AttributeError")
        ELSE Return(<<report_link(st, identifier)>>
                    \o [i \in 1..Len(docs) |-> document_link(docs[i].s)]
                    \o [i \in 1..Len(photos) |-> photo_link(photos[i].s)])

-----------------------------------------------------------------------------
(* crc_location *)

crc_location(rec) ==
    IF ~Has(rec.geometry, "coordinates") THEN Raise("KeyError")
    ELSE Return([representationalPoint |-> Get(rec.geometry, "coordinates")])

-----------------------------------------------------------------------------
(* crc_tags *)

TagNameLimit == 80

Min(a, b) == IF a < b THEN a ELSE b

\* mutant: the slice keeps one character more
slice_to_inclusive(s, n) == SubSeq(s, 1, Min(n + 1, Len(s)))

\* s[0:n]
slice_to(s, n) == SubSeq(s, 1, Min(n, Len(s)))

theme_tag(scheme, name) == [type |-> "Theme", scheme |-> scheme, name |-> name]

rock_type_tags(rocktype) ==
    IF rocktype[1] # None
    THEN [i \in 1..Len(rocktype) |->
             theme_tag("Rock Type", slice_to(rocktype[i].s, TagNameLimit))]
    ELSE <<>>

age_tags(age) ==
    IF Len(age) > 0 THEN <<theme_tag("Geologic Age", slice_to(age, TagNameLimit))>>
    ELSE <<>>

formation_tags(name) ==
    IF Len(name) > 0
    THEN <<theme_tag("Geologic Formation", slice_to(name, TagNameLimit))>>
    ELSE <<>>

crc_tags(info) ==
    IF ~Has(info, "rocktype") THEN Raise("KeyError")
    ELSE LET rocktype == Get(info, "rocktype").elts IN
    IF rocktype = <<>> THEN Raise("IndexError")
    ELSE IF rocktype[1] # None /\ \E i \in 1..Len(rocktype) : rocktype[i] = None
    THEN Raise("TypeError")
    ELSE IF ~Has(info, "age") \/ ~Has(info, "name") THEN Raise("KeyError")
    ELSE LET tags == rock_type_tags(rocktype)
                     \o age_tags(Get(info, "age").s)
                     \o formation_tags(Get(info, "name").s)
         IN  IF Len(tags) = 0 THEN Return(None) ELSE Return(List(tags))

-----------------------------------------------------------------------------
(* The report page and extract_crc_data *)

\* an <a> element; href is None when the attribute is missing
Anchor(title, href) == [t |-> "a", title |-> title, href |-> href]
\* a <td>: its class, its text, and its first <a> (None when it has none)
Cell(class, text, anchor) == [class |-> class, text |-> text, anchor |-> anchor]
\* a parsed page: the rows (sequences of cells) of each table.report2 and the
\* anchors of each div.report2
Html(tables, sections) == [t |-> "html", tables |-> tables, sections |-> sections]
\* requests.get raises
Unreachable == [t |-> "unreachable"]

target_schemas ==
    << <<"depth_age_formation", <<"Min Depth", "Max Depth", "Age", "Formation">> >>,
       <<"thin_sections", <<"Sequence", "Min Depth", "Max Depth", "View">> >> >>

\* [i.text for i in first_row.findAll("td", {"class": "label"})]
RECURSIVE labels_of(_)
labels_of(row) ==
    IF row = <<>> THEN <<>>
    ELSE (IF Head(row).class = "label" THEN <<Head(row).text>> ELSE <<>>)
         \o labels_of(Tail(row))

\* mutant: labels of no template name the last section instead of raising
schema_or_last(labels) ==
    IF labels = target_schemas[1][2] THEN Return(target_schemas[1][1])
    ELSE Return(target_schemas[Len(target_schemas)][1])

\* list(target_schemas.keys())[list(target_schemas.values()).index(labels)]
schema_named_by(labels) ==
    IF \E i \in 1..Len(target_schemas) : target_schemas[i][2] = labels
    THEN Return(target_schemas[CHOOSE i \in 1..Len(target_schemas) :
                                  /\ target_schemas[i][2] = labels
                                  /\ \A j \in 1..(i-1) : target_schemas[j][2] # labels][1])
    ELSE Raise("ValueError")

cell_data(col) ==
    IF col.anchor # None THEN col.anchor.href ELSE Str(col.text)

\* the mapping built from the cells of one row, from cell i on
RECURSIVE row_dict(_, _, _, _)
row_dict(labels, row, i, d_this) ==
    IF i > Len(row) THEN Return(d_this)
    ELSE IF i > Len(labels) THEN Raise("IndexError")
    ELSE row_dict(labels, row, i + 1, Put(d_this, labels[i], cell_data(row[i])))

RECURSIVE rows_data(_, _, _)
rows_data(labels, rows, acc) ==
    IF rows = <<>> THEN Return(List(acc))
    ELSE LET d == row_dict(labels, Head(rows), 1, Dict(<<>>)) IN
         IF ~d.ok THEN d ELSE rows_data(labels, Tail(rows), Append(acc, d.value))

\* the loop over the tables, from the data_structures it has built so far
RECURSIVE scan_tables(_, _)
scan_tables(tables, data_structures) ==
    IF tables = <<>> THEN Return(data_structures)
    ELSE LET table == Head(tables) IN
         IF table = <<>> THEN Raise("AttributeError")
         ELSE LET labels == labels_of(table[1])
                  target_data == schema_named_by(labels)
              IN  IF ~target_data.ok THEN target_data
                  ELSE LET rows == rows_data(labels, Tail(table), <<>>) IN
                       IF ~rows.ok THEN rows
                       ELSE scan_tables(Tail(tables),
                                        Put(data_structures, target_data.value, rows.value))

\* set([i.get('href') for i in section.findAll("a", {"title": title})])
hrefs(section, title) ==
    {section[i].href : i \in {j \in 1..Len(section) : section[j].title = title}}

\* list(S): any order of the elements of a set
Orderings(S) ==
    {f \in [1..Cardinality(S) -> S] : \A i, j \in 1..Cardinality(S) : f[i] = f[j] => i = j}

\* the lists the loop over the sections can extend to
RECURSIVE link_lists(_, _)
link_lists(sections, title) ==
    IF sections = <<>> THEN {<<>>}
    ELSE {h \o rest : h \in Orderings(hrefs(Head(sections), title)),
                      rest \in link_lists(Tail(sections), title)}

\* mutant: the empty mapping is returned as it is
with_links_never_none(data_structures, photos, documents) ==
    LET withPhotos == IF Len(photos) > 0
                      THEN Put(data_structures, "photos", List(photos))
                      ELSE data_structures
    IN  IF Len(documents) > 0
        THEN Put(withPhotos, "documents", List(documents))
        ELSE withPhotos

with_links(data_structures, photos, documents) ==
    LET withPhotos == IF Len(photos) > 0
                      THEN Put(data_structures, "photos", List(photos))
                      ELSE data_structures
        withDocs   == IF Len(documents) > 0
                      THEN Put(withPhotos, "documents", List(documents))
                      ELSE withPhotos
    IN  IF withDocs.items = <<>> THEN None ELSE withDocs

\* every outcome the call can have on the page
extract_crc_data(pg) ==
    IF pg = Unreachable THEN {Raise("ConnectionError")}
    ELSE LET scanned == scan_tables(pg.tables, Dict(<<>>)) IN
         IF ~scanned.ok THEN {scanned}
         ELSE {Return(with_links(scanned.value, photos, documents)) :
                  photos \in link_lists(pg.sections, "see photo"),
                  documents \in link_lists(pg.sections, "download analysis document")}

-----------------------------------------------------------------------------
(* macrostrat_context *)

\* mutant: without a success payload the answer itself is returned
macrostrat_context_answer(r) ==
    IF r = Unreachable THEN Raise("ConnectionError")
    ELSE IF Has(r, "success") /\ Has(Get(r, "success"), "data")
    THEN Return(Get(Get(r, "success"), "data"))
    ELSE Return(r)

macrostrat_context(r) ==
    IF r = Unreachable THEN Raise("ConnectionError")
    ELSE IF Has(r, "success") /\ Has(Get(r, "success"), "data")
    THEN Return(Get(Get(r, "success"), "data"))
    ELSE Return(None)

-----------------------------------------------------------------------------
(* sb_item_from_crcwc *)

\* mutant: the scraped section is used only when the caller supplied nothing
scraped_props_as_default(data, addl) ==
    IF addl = None /\ data # None /\ Has(data, "depth_age_formation")
    THEN Get(data, "depth_age_formation")
    ELSE addl

\* lines 287-288: the scraped section replaces the caller's additional_props
scraped_props(data, addl) ==
    IF data # None /\ Has(data, "depth_age_formation")
    THEN Get(data, "depth_age_formation")
    ELSE addl

\* line 290: the test that guards the call of macrostrat_context
has_float_coordinates(props) ==
    isinstance_float(Get(props, "lat")) /\ isinstance_float(Get(props, "lng"))

\* lines 293-312: the item, from the locals as they stand after the two calls
build_item(st, rec, addl, info, data) ==
    LET props       == rec.properties
        identifiers == crc_identifiers(rec.id, st, props)
        body        == crc_body(st, props, addl, info)
        web_links   == crc_weblinks(st, rec.id, data)
        spatial     == crc_location(rec)
        item_tags   == crc_tags(info)
    IN  IF ~identifiers.ok THEN identifiers
        ELSE IF ~body.ok THEN body
        ELSE IF ~web_links.ok THEN web_links
        ELSE IF rec.geometry # None /\ ~spatial.ok THEN spatial
        ELSE IF info # None /\ ~item_tags.ok THEN item_tags
        ELSE Return(
            [parentId |-> property_mapping[st].parent_id,
             identifiers |-> identifiers.value,
             title |-> crc_title(st, Get(props, property_mapping[st].source_identifier)),
             body |-> body.value,
             contacts |-> crc_contacts(Get(props, property_mapping[st].site_operator)),
             provenance |-> crc_provenance,
             browseCategories |-> <<"Physical Item">>,
             webLinks |-> web_links.value]
            @@ (IF rec.geometry # None THEN "spatial" :> spatial.value ELSE <<>>)
            @@ (IF info # None /\ item_tags.value # None
                THEN "tags" :> item_tags.value.elts ELSE <<>>))

-----------------------------------------------------------------------------
(* The inputs of one call of sb_item_from_crcwc *)

SampleTypes == {"core", "cutting"}

\* (lat, lng) as the feature service can serve them
Coordinates ==
    { <<None, None>>, <<Float(39, "75"), Float(-105, "25")>>,
      <<PyInt(40), PyInt(-105)>>, <<Float(39, "75"), PyInt(-105)>>,
      <<Float(39, "75"), None>>, <<Str("39.75"), Str("-105.25")>> }

\* the properties of a feature of the layer `kind`
Properties(kind, lib, api, ll) ==
    Dict(<< <<property_mapping[kind].source_identifier, lib>>,
            <<property_mapping[kind].site_operator, Str("Shell \"West\" Oil")>>,
            <<property_mapping[kind].api_identifier, api>>,
            <<"lat", ll[1]>>, <<"lng", ll[2]>> >>)

Feature(id, kind, lib, api, ll) ==
    [id |-> id,
     geometry |-> IF ll[1] = None THEN None
                  ELSE Dict(<< <<"type", Str("Point")>>,
                               <<"coordinates", List(<<ll[2], ll[1]>>)>> >>),
     properties |-> Properties(kind, lib, api, ll)]

Records ==
    {Feature(PyInt(4711), kind, ids[1], ids[2], ll) :
        kind \in SampleTypes,
        ids \in {<<None, None>>, <<Str("D123"), Str("0500105000")>>},
        ll \in Coordinates}

Sandstone == Dict(<< <<"rocktype", List(<<Str("sandstone"), Str("shale")>>)>>,
                     <<"age", Str("Cretaceous")>>, <<"name", Str("Pierre Shale")>> >>)
Unmapped  == Dict(<< <<"rocktype", List(<<None>>)>>,
                     <<"age", Str("")>>, <<"name", Str("")>> >>)

ApiResponses ==
    { Dict(<< <<"success", Dict(<< <<"v", PyInt(2)>>, <<"data", Sandstone>> >>)>> >>),
      Dict(<< <<"success", Dict(<< <<"v", PyInt(2)>>, <<"data", Unmapped>> >>)>> >>),
      Dict(<< <<"success", Dict(<< <<"v", PyInt(2)>>, <<"data", Dict(<<>>)>> >>)>> >>),
      Dict(<< <<"error", Dict(<< <<"message", Str("Invalid parameters")>> >>)>> >>),
      Unreachable }

\* rows of table.report2 elements
Label(text) == Cell("label", text, None)
Td(text) == Cell("", text, None)
DafHeader  == <<Label("Min Depth"), Label("Max Depth"), Label("Age"), Label("Formation")>>
ThinHeader == <<Label("Sequence"), Label("Min Depth"), Label("Max Depth"), Label("View")>>
DafRow(a, b) == <<Td(a), Td(b), Td("Cretaceous"), Td("Niobrara")>>
ThinRow == <<Td("1"), Td("5010"), Td("5011"),
             Cell("", "view", Anchor("view thin section", Str("/crcwc/thin/9")))>>

DafTable   == <<DafHeader, DafRow("5000", "5100"), DafRow("5100", "5250")>>
DafTable2  == <<DafHeader, DafRow("6000", "6010")>>
DafEmpty   == <<DafHeader>>
ThinTable  == <<ThinHeader, ThinRow>>
\* a header that is neither template
OtherTable == <<<<Label("Box"), Label("Interval")>>, <<Td("1"), Td("5000-5010")>>>>
\* a data row with more cells than the header has labels
WideTable  == <<DafHeader, DafRow("5000", "5100") \o <<Td("note")>>>>
\* a table without any row
BareTable  == <<>>

Photo(u) == Anchor("see photo", u)
Document(u) == Anchor("download analysis document", u)
U1 == Str("https://my.usgs.gov/crcwc/photo/D123/box1.jpg")
U2 == Str("https://my.usgs.gov/crcwc/photo/D123/box2.jpg")
U3 == Str("https://my.usgs.gov/crcwc/doc/D123/analysis.pdf")

CallerProps == List(<<Dict(<< <<"Note", Str("from caller")>> >>)>>)

Pages ==
    { Html(<<>>, <<>>),
      Html(<<>>, << <<Anchor("home", U1)>> >>),
      Html(<<DafTable>>, <<>>),
      Html(<<DafEmpty>>, << <<Document(U3)>> >>),
      Html(<<ThinTable>>, << <<Photo(U1), Photo(U2)>>, <<Document(U3)>> >>),
      Html(<<DafTable, ThinTable>>, << <<Photo(U1), Document(U3)>> >>),
      Html(<<DafTable, DafTable2>>, <<>>),
      Html(<<>>, << <<Photo(U1)>>, <<Photo(U1), Document(U3)>> >>),
      Html(<<>>, << <<Photo(None)>> >>),
      Html(<<OtherTable>>, <<>>),
      Html(<<DafTable, OtherTable>>, << <<Photo(U1)>> >>),
      Html(<<OtherTable, DafTable>>, << <<Document(U3)>> >>),
      Html(<<WideTable>>, <<>>),
      Html(<<BareTable>>, <<>>),
      Unreachable }

-----------------------------------------------------------------------------
(* One call of sb_item_from_crcwc, step by step *)

Init ==
    /\ pc = "start"
    /\ sample_type \in SampleTypes
    /\ crc_record \in Records
    /\ args \in [additional_props : {None, CallerProps},
                 macrostrat_info : {None, Sandstone}]
    /\ additional_props = args.additional_props
    /\ macrostrat_info = args.macrostrat_info
    /\ page \in Pages
    /\ api_response \in ApiResponses
    /\ extracted_data = None
    /\ enricher_calls = 0
    /\ result = None

\* lines 285-288: the Report Scraper returns
Scrape ==
    /\ pc = "start"
    /\ \E r \in extract_crc_data(page) :
          /\ r.ok
          /\ extracted_data' = r.value
          /\ additional_props' = scraped_props(r.value, additional_props)
    /\ pc' = "scraped"
    /\ UNCHANGED <<sample_type, crc_record, args, macrostrat_info, page,
                   api_response, enricher_calls, result>>

\* line 285: the Report Scraper raises, and so does the call
ScrapeRaises ==
    /\ pc = "start"
    /\ \E r \in extract_crc_data(page) :
          /\ ~r.ok
          /\ result' = r
    /\ pc' = "raised"
    /\ UNCHANGED <<sample_type, crc_record, args, additional_props, macrostrat_info,
                   page, api_response, extracted_data, enricher_calls>>

\* lines 290-291: the Geologic Enricher is called and returns
Enrich ==
    /\ pc = "scraped"
    /\ has_float_coordinates(crc_record.properties)
    /\ macrostrat_context(api_response).ok
    /\ macrostrat_info' = macrostrat_context(api_response).value
    /\ enricher_calls' = enricher_calls + 1
    /\ pc' = "enriched"
    /\ UNCHANGED <<sample_type, crc_record, args, additional_props, page,
                   api_response, extracted_data, result>>

\* lines 290-291: the Geologic Enricher is called and raises
EnrichRaises ==
    /\ pc = "scraped"
    /\ has_float_coordinates(crc_record.properties)
    /\ ~macrostrat_context(api_response).ok
    /\ result' = macrostrat_context(api_response)
    /\ enricher_calls' = enricher_calls + 1
    /\ pc' = "raised"
    /\ UNCHANGED <<sample_type, crc_record, args, additional_props, macrostrat_info,
                   page, api_response, extracted_data>>

\* line 290: the test fails and the call is skipped
SkipEnrich ==
    /\ pc = "scraped"
    /\ ~has_float_coordinates(crc_record.properties)
    /\ pc' = "enriched"
    /\ UNCHANGED <<sample_type, crc_record, args, additional_props, macrostrat_info,
                   page, api_response, extracted_data, enricher_calls, result>>

\* lines 293-312: the item is built and returned, or a builder raises
BuildItem ==
    /\ pc = "enriched"
    /\ result' = build_item(sample_type, crc_record, additional_props,
                            macrostrat_info, extracted_data)
    /\ pc' = IF result'.ok THEN "returned" ELSE "raised"
    /\ UNCHANGED <<sample_type, crc_record, args, additional_props, macrostrat_info,
                   page, api_response, extracted_data, enricher_calls>>

Next == Scrape \/ ScrapeRaises \/ Enrich \/ EnrichRaises \/ SkipEnrich \/ BuildItem

Spec == Init /\ [][Next]_vars

-----------------------------------------------------------------------------
(* The builders and the scraper called on their own *)

MaxTables == 2
MaxSections == 2
MaxLinks == 2
MaxRockTypes == 2

SeqsUpTo(S, n) == UNION {[1..k -> S] : k \in 0..n}

\* the variables a direct call of one function does not use
Idle ==
    /\ args = None
    /\ additional_props = None
    /\ api_response = None
    /\ enricher_calls = 0
    /\ result = None

LibraryNumbers == {None, Str("D123"), PyInt(123)}
ApiNumbers == {None, Str("0500105000"), PyInt(500105000)}

InitIdentifiers ==
    /\ pc = "call"
    /\ sample_type \in SampleTypes
    /\ crc_record \in {Feature(id, kind, lib, api, <<None, None>>) :
                          id \in {PyInt(4711), Str("C-4711")}, kind \in SampleTypes,
                          lib \in LibraryNumbers, api \in ApiNumbers}
    /\ macrostrat_info = None
    /\ page = None
    /\ extracted_data = None
    /\ Idle

CallIdentifiers ==
    /\ pc = "call"
    /\ result' = crc_identifiers(crc_record.id, sample_type, crc_record.properties)
    /\ pc' = IF result'.ok THEN "returned" ELSE "raised"
    /\ UNCHANGED <<sample_type, crc_record, args, additional_props, macrostrat_info,
                   page, api_response, extracted_data, enricher_calls>>

SpecIdentifiers == InitIdentifiers /\ [][CallIdentifiers]_vars

\* what extract_crc_data can hand to crc_weblinks
LinkLists == SeqsUpTo({U1, U3, None}, MaxLinks)

ScrapedData ==
    {None, Dict(<< <<"thin_sections", List(<<>>)>> >>)}
    \cup {with_links(Dict(tables), photos, documents) :
             tables \in {<<>>, << <<"depth_age_formation", List(<<>>)>> >>},
             photos \in LinkLists, documents \in LinkLists}

InitWeblinks ==
    /\ pc = "call"
    /\ sample_type \in SampleTypes
    /\ crc_record \in {Feature(id, "core", None, None, <<None, None>>) :
                          id \in {PyInt(4711), Str("C-4711")}}
    /\ extracted_data \in ScrapedData
    /\ macrostrat_info = None
    /\ page = None
    /\ Idle

CallWeblinks ==
    /\ pc = "call"
    /\ result' = crc_weblinks(sample_type, crc_record.id, extracted_data)
    /\ pc' = IF result'.ok THEN "returned" ELSE "raised"
    /\ UNCHANGED <<sample_type, crc_record, args, additional_props, macrostrat_info,
                   page, api_response, extracted_data, enricher_calls>>

SpecWeblinks == InitWeblinks /\ [][CallWeblinks]_vars

\* a text of n characters
RECURSIVE Text(_)
Text(n) == IF n = 0 THEN "" ELSE Text(n - 1) \o ToString(n % 10)

Names == {"", "Dakota", Text(TagNameLimit), Text(TagNameLimit + 1), Text(TagNameLimit + 7)}
RockTypes == {None, Str("shale"), Str(Text(TagNameLimit + 1))}

Contexts ==
    {Dict(<< <<"rocktype", List(rocktype)>>, <<"age", Str(age)>>, <<"name", Str(name)>> >>) :
        rocktype \in SeqsUpTo(RockTypes, MaxRockTypes), age \in Names, name \in Names}

InitTags ==
    /\ pc = "call"
    /\ macrostrat_info \in Contexts
    /\ sample_type = "core"
    /\ crc_record = None
    /\ page = None
    /\ extracted_data = None
    /\ Idle

CallTags ==
    /\ pc = "call"
    /\ result' = crc_tags(macrostrat_info)
    /\ pc' = IF result'.ok THEN "returned" ELSE "raised"
    /\ UNCHANGED <<sample_type, crc_record, args, additional_props, macrostrat_info,
                   page, api_response, extracted_data, enricher_calls>>

SpecTags == InitTags /\ [][CallTags]_vars

TableSet == {DafTable2, DafEmpty, ThinTable, OtherTable, WideTable, BareTable}
SectionSet ==
    { <<>>, <<Photo(U1)>>, <<Photo(U1), Photo(U1)>>, <<Photo(U1), Photo(U2)>>,
      <<Document(U3)>>, <<Photo(U2), Document(U3), Anchor("home", U1)>> }

ReportPages ==
    {Html(tables, sections) :
        tables \in SeqsUpTo(TableSet, MaxTables),
        sections \in SeqsUpTo(SectionSet, MaxSections)}

InitExtract ==
    /\ pc = "call"
    /\ page \in ReportPages
    /\ sample_type \in SampleTypes
    /\ crc_record = None
    /\ macrostrat_info = None
    /\ extracted_data = None
    /\ Idle

CallExtract ==
    /\ pc = "call"
    /\ \E r \in extract_crc_data(page) : result' = r
    /\ pc' = IF result'.ok THEN "returned" ELSE "raised"
    /\ UNCHANGED <<sample_type, crc_record, args, additional_props, macrostrat_info,
                   page, api_response, extracted_data, enricher_calls>>

SpecExtract == InitExtract /\ [][CallExtract]_vars

-----------------------------------------------------------------------------
(* Helpers of the properties *)

StartsWith(s, prefix) ==
    Len(prefix) <= Len(s) /\ SubSeq(s, 1, Len(prefix)) = prefix

\* the first position of sub in s, 0 when it does not occur
IndexOf(s, sub) ==
    LET hits == {i \in 1..(Len(s) - Len(sub) + 1) : SubSeq(s, i, i + Len(sub) - 1) = sub}
    IN  IF hits = {} THEN 0 ELSE CHOOSE i \in hits : \A j \in hits : i <= j

Contains(s, sub) == IndexOf(s, sub) > 0

EndsWith(s, suffix) ==
    Len(suffix) <= Len(s) /\ SubSeq(s, Len(s) - Len(suffix) + 1, Len(s)) = suffix

\* the longest suffix of s without a "/"
TrailingSegment(s) ==
    CHOOSE seg \in {SubSeq(s, i, Len(s)) : i \in 1..(Len(s) + 1)} :
        /\ ~Contains(seg, "/")
        /\ seg = s \/ EndsWith(s, "/" \o seg)

LibraryField(st) == IF st = "core" THEN "libno" ELSE "chlibno"
ApiField(st) == IF st = "core" THEN "apiwel" ELSE "apinum"

-----------------------------------------------------------------------------
(* C1: crc_identifiers returns the source unique key first, then a library  *)
(* number identifier exactly when the library number is non-null, then an   *)
(* API number identifier exactly when the API number is non-null.           *)
C1_Identifiers ==
    (pc # "call" /\ Has(crc_record.properties, LibraryField(sample_type))
                 /\ Has(crc_record.properties, ApiField(sample_type))) =>
        LET lib == Get(crc_record.properties, LibraryField(sample_type))
            api == Get(crc_record.properties, ApiField(sample_type))
            ids == result.value
            n   == 1 + (IF lib # None THEN 1 ELSE 0) + (IF api # None THEN 1 ELSE 0)
        IN  /\ result.ok
            /\ Len(ids) = n
            /\ ids[1] = [type |-> "uniqueKey", scheme |-> "CRC Well Catalog Database ID",
                         key |-> crc_record.id]
            /\ lib # None =>
                  ids[2] = [type |-> "uniqueKey", scheme |-> "CRC Library Number",
                            key |-> lib]
            /\ api # None =>
                  ids[n] = [type |-> "uniqueKey",
                            scheme |-> "American Petroleum Institute Number", key |-> api]

C1_Witness ==
    /\ pc = "returned"
    /\ sample_type = "cutting"
    /\ Len(result.value) = 3
    /\ result.value[2].key = Str("D123")
    /\ result.value[3].key = PyInt(500105000)

-----------------------------------------------------------------------------
(* C2: crc_weblinks returns the report link, then one download entry per    *)
(* document link in scraped order, then one download entry per photo link   *)
(* in scraped order, titled "... Photo <file>": 1 + d + p entries.          *)
C2_Weblinks ==
    (pc = "returned") =>
        LET docs   == IF extracted_data # None /\ Has(extracted_data, "documents")
                      THEN Get(extracted_data, "documents").elts ELSE <<>>
            photos == IF extracted_data # None /\ Has(extracted_data, "photos")
                      THEN Get(extracted_data, "photos").elts ELSE <<>>
            d == Len(docs)
            p == Len(photos)
            links == result.value
        IN  /\ Len(links) = 1 + d + p
            /\ links[1].type = "webLink"
            /\ links[1].uri = "https://my.usgs.gov/crcwc/" \o sample_type \o "/report/"
                                 \o format(crc_record.id)
            /\ \A i \in 1..d :
                  /\ links[1 + i].type = "download"
                  /\ links[1 + i].uri = docs[i].s
                  /\ links[1 + i].title =
                        "Core Research Center Analysis File " \o TrailingSegment(docs[i].s)
            /\ \A i \in 1..p :
                  /\ links[1 + d + i].type = "download"
                  /\ links[1 + d + i].uri = photos[i].s
                  /\ links[1 + d + i].title =
                        "Core Research Center Photo " \o TrailingSegment(photos[i].s)

\* one document link and one photo link give three entries
C2_Witness ==
    /\ pc = "returned"
    /\ extracted_data # None
    /\ Has(extracted_data, "documents") /\ Has(extracted_data, "photos")
    /\ Get(extracted_data, "documents").elts = <<U3>>
    /\ Get(extracted_data, "photos").elts = <<U1>>
    /\ Len(result.value) = 3
    /\ result.value[3].title = "Core Research Center Photo box1.jpg"

-----------------------------------------------------------------------------
(* C3 as stated: crc_tags returns None when the first rock type is None and *)
(* age and name are empty, and otherwise a non-empty list holding one tag   *)
(* per populated category, every name at most 80 characters long and a      *)
(* prefix of its source value.  Refuted by a list of two rock types.        *)
C3_OneTagPerCategory ==
    (pc = "returned") =>
        LET rock == Get(macrostrat_info, "rocktype").elts
            age  == Get(macrostrat_info, "age").s
            name == Get(macrostrat_info, "name").s
            populated == (IF rock[1] # None THEN 1 ELSE 0) + (IF age # "" THEN 1 ELSE 0)
                         + (IF name # "" THEN 1 ELSE 0)
        IN  IF rock[1] = None /\ age = "" /\ name = ""
            THEN result.value = None
            ELSE /\ result.value # None
                 /\ Len(result.value.elts) = populated
                 /\ \A i \in 1..Len(result.value.elts) :
                       LET tag == result.value.elts[i] IN
                       /\ Len(tag.name) <= 80
                       /\ \/ tag.scheme = "Rock Type" /\ StartsWith(rock[1].s, tag.name)
                          \/ tag.scheme = "Geologic Age" /\ StartsWith(age, tag.name)
                          \/ tag.scheme = "Geologic Formation" /\ StartsWith(name, tag.name)

(* C3 as amended: crc_tags raises when the rock type list is empty or holds *)
(* a None after a non-None first element; otherwise it returns None when    *)
(* the first rock type is None and age and name are empty, and else the     *)
(* list of one Rock Type tag per element of the rock type list (when the    *)
(* first is not None), then one Geologic Age tag when age is non-empty,     *)
(* then one Geologic Formation tag when name is non-empty, every name being *)
(* the first 80 characters of its source value.                             *)
C3_OneTagPerRockType ==
    (pc # "call") =>
        LET rock == Get(macrostrat_info, "rocktype").elts
            age  == Get(macrostrat_info, "age").s
            name == Get(macrostrat_info, "name").s
            nRock == IF rock # <<>> /\ rock[1] # None THEN Len(rock) ELSE 0
            nAge  == IF age # "" THEN 1 ELSE 0
            nName == IF name # "" THEN 1 ELSE 0
            Truncated(src, tagName) ==
                /\ Len(tagName) <= 80
                /\ StartsWith(src, tagName)
                /\ Len(tagName) < 80 => tagName = src
        IN  /\ result.ok <=> (rock # <<>> /\ (rock[1] # None =>
                                                \A i \in 1..Len(rock) : rock[i] # None))
            /\ result.ok =>
                  IF nRock + nAge + nName = 0
                  THEN result.value = None
                  ELSE /\ result.value # None
                       /\ Len(result.value.elts) = nRock + nAge + nName
                       /\ \A i \in 1..nRock :
                             /\ result.value.elts[i].scheme = "Rock Type"
                             /\ Truncated(rock[i].s, result.value.elts[i].name)
                       /\ nAge = 1 =>
                             /\ result.value.elts[nRock + 1].scheme = "Geologic Age"
                             /\ Truncated(age, result.value.elts[nRock + 1].name)
                       /\ nName = 1 =>
                             /\ result.value.elts[nRock + nAge + 1].scheme
                                   = "Geologic Formation"
                             /\ Truncated(name, result.value.elts[nRock + nAge + 1].name)

\* two rock types, one of them longer than 80 characters, and a long age
C3_Witness ==
    /\ pc = "returned"
    /\ result.value # None
    /\ Len(Get(macrostrat_info, "rocktype").elts) = 2
    /\ Len(result.value.elts) = 4
    /\ Len(Get(macrostrat_info, "rocktype").elts[2].s) = 81
    /\ Len(result.value.elts[2].name) = 80
    /\ Len(Get(macrostrat_info, "age").s) = 87
    /\ Len(result.value.elts[3].name) = 80

-----------------------------------------------------------------------------
(* What a report page holds, read off the page itself *)

DafLabels  == <<"Min Depth", "Max Depth", "Age", "Formation">>
ThinLabels == <<"Sequence", "Min Depth", "Max Depth", "View">>

HeaderLabels(table) ==
    LET cells == {i \in 1..Len(table[1]) : table[1][i].class = "label"}
        nth(k) == CHOOSE i \in cells : Cardinality({j \in cells : j < i}) = k - 1
    IN  [k \in 1..Cardinality(cells) |-> table[1][nth(k)].text]

MatchesTemplate(table) ==
    table # <<>> /\ HeaderLabels(table) \in {DafLabels, ThinLabels}

SectionOf(table) ==
    IF HeaderLabels(table) = DafLabels THEN "depth_age_formation" ELSE "thin_sections"

\* the table can be read: it has a header row of a known template and no data
\* row with more cells than the header has labels
Readable(table) ==
    /\ MatchesTemplate(table)
    /\ \A i \in 2..Len(table) : Len(table[i]) <= Len(HeaderLabels(table))

HasLink(pg, title) ==
    \E i \in 1..Len(pg.sections) :
        \E j \in 1..Len(pg.sections[i]) : pg.sections[i][j].title = title

LinkKeys(pg) ==
    (IF HasLink(pg, "see photo") THEN {"photos"} ELSE {})
    \cup (IF HasLink(pg, "download analysis document") THEN {"documents"} ELSE {})

MatchingTables(pg) == {i \in 1..Len(pg.tables) : MatchesTemplate(pg.tables[i])}

PopulatedKeys(pg) ==
    {SectionOf(pg.tables[i]) : i \in MatchingTables(pg)} \cup LinkKeys(pg)

-----------------------------------------------------------------------------
(* C4 as stated: for every parsed page extract_crc_data returns None when   *)
(* the page has no matching tables and no matching links, and otherwise a   *)
(* non-empty mapping with a key for exactly the populated sections and link *)
(* lists.  Refuted by a page with a table of an unknown header.             *)
C4_NoneOrPopulatedMapping ==
    (pc # "call") =>
        IF PopulatedKeys(page) = {}
        THEN result = Return(None)
        ELSE /\ result.ok
             /\ result.value # None
             /\ result.value.items # <<>>
             /\ Keys(result.value) = PopulatedKeys(page)

(* C4 as amended: extract_crc_data raises when some table has no row, a     *)
(* header matching neither template, or a data row with more cells than     *)
(* labels; on every other parsed page it returns None when the page has no  *)
(* table and no photo or document link, and otherwise a non-empty mapping   *)
(* whose keys are exactly the sections whose table is on the page (also a   *)
(* table without data rows) and the link lists that are non-empty.          *)
C4_NoneOrPopulatedMappingWhenReadable ==
    (pc # "call") =>
        /\ result.ok <=> \A i \in 1..Len(page.tables) : Readable(page.tables[i])
        /\ result.ok =>
              IF PopulatedKeys(page) = {}
              THEN result.value = None
              ELSE /\ result.value # None
                   /\ result.value.items # <<>>
                   /\ Keys(result.value) = PopulatedKeys(page)
                   /\ Len(result.value.items) = Cardinality(PopulatedKeys(page))

\* a table without data rows, a thin section table, photos and no documents
C4_Witness ==
    /\ pc = "returned"
    /\ page.tables = <<DafEmpty, ThinTable>>
    /\ HasLink(page, "see photo") /\ ~HasLink(page, "download analysis document")
    /\ Keys(result.value) = {"depth_age_formation", "thin_sections", "photos"}
    /\ Get(result.value, "depth_age_formation") = List(<<>>)

-----------------------------------------------------------------------------
(* C6: no URL occurs more than once in the photos list and none more than   *)
(* once in the documents list that extract_crc_data returns, whatever the   *)
(* sections of the page.  Refuted by the same photo in two sections.        *)
NoDuplicates(list) == \A i, j \in 1..Len(list) : list[i] = list[j] => i = j

C6_LinksDeduplicatedPerPage ==
    (pc = "returned" /\ result.value # None) =>
        /\ Has(result.value, "photos") => NoDuplicates(Get(result.value, "photos").elts)
        /\ Has(result.value, "documents") =>
              NoDuplicates(Get(result.value, "documents").elts)

-----------------------------------------------------------------------------
(* C5: the body of a returned item holds the exact JSON serialization of    *)
(* the record's properties, and its parts come in this order: paragraph,    *)
(* raw properties, the additional properties section exactly when           *)
(* additional_props is not None, the geologic context section exactly when  *)
(* macrostrat_info is not None.                                             *)
KnownProperties ==
    Properties("core", Str("D123"), Str("0500105000"),
               <<Float(39, "75"), Float(-105, "25")>>)
KnownJson ==
    "{\"libno\": \"D123\", \"oper\": \"Shell \\\"West\\\" Oil\", "
    \o "\"apiwel\": \"0500105000\", \"lat\": 39.75, \"lng\": -105.25}"
KnownScrapedJson ==
    "[{\"Min Depth\": \"5000\", \"Max Depth\": \"5100\", \"Age\": \"Cretaceous\", "
    \o "\"Formation\": \"Niobrara\"}, {\"Min Depth\": \"5100\", \"Max Depth\": \"5250\", "
    \o "\"Age\": \"Cretaceous\", \"Formation\": \"Niobrara\"}]"

WebHeading == "<h4>Properties from Web Page</h4>"
GeoHeading == "<h4>Geologic Map Information from Macrostrat</h4>"

C5_BodyPartsInOrder ==
    (pc = "returned") =>
        LET body   == result.value.body
            raw    == "<h4>Properties from ArcGIS MapServer</h4><div>"
                      \o dumps(crc_record.properties) \o "</div>"
            iRaw   == IndexOf(body, raw)
            iWeb   == IndexOf(body, WebHeading)
            iGeo   == IndexOf(body, GeoHeading)
            endRaw == iRaw + Len(raw)
            web    == WebHeading \o "<div>" \o dumps(additional_props) \o "</div>"
            endWeb == IF iWeb > 0 THEN iWeb + Len(web) ELSE endRaw
            geo    == GeoHeading \o "<div>" \o dumps(macrostrat_info) \o "</div>"
        IN  /\ StartsWith(body, "<p>Core Research Center, " \o sample_type \o " ")
            /\ iRaw = IndexOf(body, "</p>") + 4
            /\ crc_record.properties = KnownProperties => Contains(body, KnownJson)
            /\ (iWeb > 0) <=> (additional_props # None)
            /\ iWeb > 0 => iWeb = endRaw /\ SubSeq(body, iWeb, endWeb - 1) = web
            /\ (iGeo > 0) <=> (macrostrat_info # None)
            /\ iGeo > 0 => iGeo = endWeb /\ SubSeq(body, iGeo, Len(body)) = geo
            /\ iGeo = 0 => Len(body) = endWeb - 1

C5_Witness ==
    /\ pc = "returned"
    /\ crc_record.properties = KnownProperties
    /\ additional_props # None
    /\ macrostrat_info # None
    /\ Contains(result.value.body, KnownJson \o "</div>" \o WebHeading \o "<div>"
                   \o KnownScrapedJson \o "</div>" \o GeoHeading)

-----------------------------------------------------------------------------
(* C7: the additional properties used for the body are the scraped          *)
(* depth/age/formation section whenever the scraper yields one, whatever    *)
(* the caller supplied, and the caller-supplied value otherwise.            *)
YieldsSection ==
    extracted_data # None /\ "depth_age_formation" \in Keys(extracted_data)

C7_ScrapedPropsOverride ==
    /\ pc \in {"scraped", "enriched", "returned"} =>
          additional_props = IF YieldsSection
                             THEN Get(extracted_data, "depth_age_formation")
                             ELSE args.additional_props
    /\ pc = "returned" =>
          LET payload == IF YieldsSection
                         THEN Get(extracted_data, "depth_age_formation")
                         ELSE args.additional_props
          IN  IF payload = None
              THEN ~Contains(result.value.body, WebHeading)
              ELSE Contains(result.value.body,
                            WebHeading \o "<div>" \o dumps(payload) \o "</div>")

\* the caller supplied a value and the scraper yields a section
C7_Witness ==
    /\ pc = "returned"
    /\ args.additional_props = CallerProps
    /\ YieldsSection
    /\ Contains(result.value.body, WebHeading \o "<div>" \o KnownScrapedJson)
    /\ ~Contains(result.value.body, "from caller")

-----------------------------------------------------------------------------
(* C8 as stated: with any caller-supplied macrostrat_info, the item has no  *)
(* geologic context section and no tags whenever the record lacks numeric   *)
(* coordinates or the query returns no success payload.  Refuted by a       *)
(* caller-supplied macrostrat_info on a record without coordinates.         *)
Numeric(v) == v.t \in {"int", "float"}
NumericCoordinates ==
    Numeric(Get(crc_record.properties, "lat")) /\ Numeric(Get(crc_record.properties, "lng"))
FloatCoordinates ==
    Get(crc_record.properties, "lat").t = "float"
    /\ Get(crc_record.properties, "lng").t = "float"
SuccessPayload ==
    /\ api_response # Unreachable
    /\ "success" \in Keys(api_response)
    /\ "data" \in Keys(Get(api_response, "success"))
NoGeologicContext ==
    /\ ~Contains(result.value.body, GeoHeading)
    /\ "tags" \notin DOMAIN result.value

C8_NoContextWithoutCoordinatesOrSuccess ==
    (pc = "returned" /\ (~NumericCoordinates \/ ~SuccessPayload)) => NoGeologicContext

(* C8 as amended: the item has no geologic context section and no tags      *)
(* whenever lat and lng are both floats and the query returns no success    *)
(* payload (whatever the caller supplied), and whenever lat and lng are not *)
(* both floats and the caller supplied no macrostrat_info; when they are    *)
(* not both floats the caller-supplied macrostrat_info is the geologic      *)
(* context of the item.                                                     *)
C8_NoContextUnlessSuppliedByCaller ==
    /\ (pc \in {"enriched", "returned"} /\ FloatCoordinates /\ ~SuccessPayload) =>
          macrostrat_info = None
    /\ (pc \in {"enriched", "returned"} /\ ~FloatCoordinates) =>
          macrostrat_info = args.macrostrat_info
    /\ (pc = "returned" /\ macrostrat_info = None) => NoGeologicContext
    /\ (pc = "returned" /\ macrostrat_info # None) =>
          Contains(result.value.body,
                   GeoHeading \o "<div>" \o dumps(macrostrat_info) \o "</div>")

\* float coordinates, an error answer, and a caller-supplied value dropped
C8_Witness ==
    /\ pc = "returned"
    /\ FloatCoordinates
    /\ api_response # Unreachable /\ "error" \in Keys(api_response)
    /\ args.macrostrat_info # None
    /\ NoGeologicContext

-----------------------------------------------------------------------------
(* C9: the Geologic Enricher is invoked exactly when lat and lng are both   *)
(* present and numeric (integer-valued or fractional), at most once, only   *)
(* after the Report Scraper has returned, and never when a coordinate is    *)
(* null or not a number.  Refuted by integer coordinates.                   *)
C9_EnricherCalledIffNumeric ==
    /\ enricher_calls <= 1
    /\ pc = "start" => enricher_calls = 0
    /\ ~NumericCoordinates => enricher_calls = 0
    /\ (pc \in {"enriched", "returned"} /\ NumericCoordinates) => enricher_calls = 1

-----------------------------------------------------------------------------
(* C10: when a table of the page has header labels matching neither         *)
(* template, extract_crc_data raises whatever else is on the page, the call *)
(* of sb_item_from_crcwc ends with that fault, no item is returned and the  *)
(* Geologic Enricher is never invoked.                                      *)
HasUnknownTable ==
    /\ page # Unreachable
    /\ \E i \in 1..Len(page.tables) :
          page.tables[i] # <<>> /\ ~MatchesTemplate(page.tables[i])

C10_UnknownHeaderIsFatal ==
    HasUnknownTable =>
        /\ pc \in {"start", "raised"}
        /\ \A r \in extract_crc_data(page) : ~r.ok
        /\ pc = "raised" => ~result.ok
        /\ pc = "start" => result = None
        /\ enricher_calls = 0
        /\ extracted_data = None

\* a known table and a link on the page, and float coordinates on the record
C10_Witness ==
    /\ pc = "raised"
    /\ HasUnknownTable
    /\ page.tables = <<DafTable, OtherTable>>
    /\ page.sections # <<>>
    /\ FloatCoordinates
    /\ result = Raise("ValueError")

====
